---- MODULE Spec2Model ----
(***************************************************************************)
(* Stripe-to-Jira webhook integration.                                     *)
(*                                                                         *)
(* The repository holds several revisions of the same cloud function.     *)
(* Each revision is a value of `version`:                                  *)
(*   "idx1"  src/index.js lines 1-221    (support request, email reporter) *)
(*   "idx2"  src/index.js lines 223-477  (epic/task/confirmation)          *)
(*   "idx3"  src/index.js lines 479-615  (express route, epic/task)        *)
(*   "p0"    src/unnamed/part_000        (support or software work)        *)
(*   "p1"    src/unnamed/part_001        (customer request, search retry)  *)
(*   "p2"    src/unnamed/part_002        (express route stub)              *)
(*                                                                         *)
(* One inbound request is followed from its arrival to the end of the      *)
(* background run.  An action is one synchronous stretch of JavaScript:    *)
(* from the arrival of an awaited answer up to the next await, where the   *)
(* next external call is issued.                                           *)
(***************************************************************************)
EXTENDS Integers, Sequences, FiniteSets

VARIABLES
    version,    \* which revision of the handler is deployed
    env,        \* process.env: JIRA_JSM_PROJECT_KEY, JIRA_JSM_SERVICE_DESK_ID
    req,        \* the inbound request: rawBody, signature, event type, session
    pc,         \* position of the handler / background run
    verified,   \* outcome of stripe.webhooks.constructEvent: none | ok | fail
    started,    \* processCheckoutSession (or the inline route body) was entered
    cfg,        \* constants computed at the top of processCheckoutSession
    loc,        \* local variables of the run
    events,     \* external calls and timer waits, in the order they were issued
    responses,  \* HTTP responses sent to the notification sender
    outcome,    \* none | completed | failed
    bg,         \* a second invocation of the handler, while the first one is running
    calc        \* the dates and the summary computed from one session, on their own

vars == <<version, env, req, pc, verified, started, cfg, loc, events, responses, outcome,
          bg, calc>>

----------------------------------------------------------------------------
(* Values *)

NULL == "null"

Versions == {"idx1", "idx2", "idx3", "p0", "p1", "p2"}

\* The handlers that are plain cloud functions (exports.stripetojira = async ...)
CloudFunctions == {"idx1", "idx2", "p0", "p1"}

CheckoutCompleted == "checkout.session.completed"

EventTypes == {CheckoutCompleted, "invoice.paid"}

\* JavaScript truthiness of a string-or-undefined value
Truthy(x) == x # NULL /\ x # ""

\* a || b
OrElse(a, b) == IF Truthy(a) THEN a ELSE b

\* s?.toUpperCase()
toUpperCase(s) ==
    CASE s = "abc" -> "ABC"
      [] s = "sup" -> "SUP"
      [] s = "Support" -> "SUPPORT"
      [] s = "Task" -> "TASK"
      [] OTHER -> s

\* s.toLowerCase()
toLowerCase(s) ==
    CASE s = "Support" -> "support"
      [] s = "SUPPORT" -> "support"
      [] s = "Task" -> "task"
      [] s = "ABC" -> "abc"
      [] OTHER -> s

\* metadata.duration as a sequence of characters; <<>> when it is absent or empty
NoDuration == <<>>

Durations == {NoDuration, <<"a", "b", "c">>}

\* event.data.object: whether session.metadata and session.customer_details exist,
\* and their fields as far as the run reads them.  A field of an object that does
\* not exist has no value.
Sessions ==
    { s \in [ hasMetadata        : BOOLEAN,
              hasCustomerDetails : BOOLEAN,
              project            : {NULL, "abc"},
              jsmProjectKey      : {NULL, "sup"},
              jsmServiceDeskId   : {NULL, "7"},
              issue              : {NULL, "Support", "Task"},
              duration           : Durations,
              email              : {NULL, "a@x.io"} ] :
        /\ ~s.hasMetadata =>
               /\ s.project = NULL /\ s.jsmProjectKey = NULL /\ s.jsmServiceDeskId = NULL
               /\ s.issue = NULL /\ s.duration = NoDuration
        /\ ~s.hasCustomerDetails => s.email = NULL }

Envs ==
    [ JIRA_JSM_PROJECT_KEY     : {NULL, "HELP"},
      JIRA_JSM_SERVICE_DESK_ID : {NULL, "1"} ]

Requests ==
    [ rawBody  : BOOLEAN,
      sigValid : BOOLEAN,
      type     : EventTypes,
      session  : Sessions ]

NoRequest ==
    [ rawBody |-> FALSE, sigValid |-> FALSE, type |-> "invoice.paid",
      session |-> [ hasMetadata |-> FALSE, hasCustomerDetails |-> FALSE,
                    project |-> NULL, jsmProjectKey |-> NULL, jsmServiceDeskId |-> NULL,
                    issue |-> NULL, duration |-> NoDuration, email |-> NULL ] ]

NoCfg ==
    [ projectKey |-> NULL, jsmProjectKey |-> NULL, jsmServiceDeskId |-> NULL,
      issueType |-> NULL, customerEmail |-> NULL ]

NoLoc ==
    [ accountId |-> NULL,          \* checkAndInviteCustomer: let accountId
      createdNewUser |-> FALSE,    \* checkAndInviteCustomer: let createdNewUser
      attempt |-> 0,               \* getJiraAccountIdByEmail: loop counter
      retries |-> 0,               \* getJiraAccountIdByEmail: parameter
      site |-> "none",             \* who called getJiraAccountIdByEmail
      wasNewCustomer |-> FALSE,    \* processCheckoutSession: let wasNewCustomer
      jiraAccountId |-> NULL ]     \* processCheckoutSession: accountId / jiraAccountId

\* An invocation of the handler: its request, its position, its locals, the calls
\* it issued and the responses it sent
NoRun ==
    [ req |-> NoRequest, pc |-> "idle", verified |-> "none", started |-> FALSE, cfg |-> NoCfg,
      loc |-> NoLoc, events |-> <<>>, responses |-> <<>>, outcome |-> "none" ]

\* customerDetails.address: whether the object exists, and its four components
NoAddress ==
    [ present |-> FALSE, line1 |-> NULL, city |-> NULL, postal_code |-> NULL, country |-> NULL ]

\* Nothing computed yet
NoCalc ==
    [ step |-> "none", duration |-> NoDuration, now |-> 0, summary |-> NULL,
      address |-> NoAddress, companyAddress |-> NULL,
      durationDays |-> [nan |-> FALSE, n |-> 0], startDate |-> <<>>, endDate |-> <<>>,
      sent |-> NULL ]

----------------------------------------------------------------------------
(* Answers of the external system *)

\* status 0: the request failed without an HTTP response (err.response undefined)
ErrorResponses ==
    { [ok |-> FALSE, status |-> s, msg |-> m] :
        s \in {400, 409, 500}, m \in {{}, {"already exists"}, {"already belongs to"}} }
    \cup { [ok |-> FALSE, status |-> 0, msg |-> {}] }

\* errorMessage.includes(phrase)
includes(r, phrase) == phrase \in r.msg

\* POST /rest/servicedeskapi/customer: 2xx with or without an accountId
CustomerResponses == { [ok |-> TRUE, accountId |-> a] : a \in {NULL, "u1"} }

\* GET /rest/api/3/user/search: 2xx with the list of matches
SearchResponses == { [ok |-> TRUE, data |-> d] : d \in {<<>>, <<"u1">>, <<"u2", "u1">>} }

\* any other POST: 2xx
OkResponse == [ok |-> TRUE]

\* What the log keeps of an answer to a POST: ok, the conflict status, else the
\* conflict phrase of the error message, else error.
Classify(r) ==
    IF r.ok THEN "ok"
    ELSE IF r.status = 409 THEN "409"
    ELSE IF "already exists" \in r.msg THEN "already exists"
    ELSE IF "already belongs to" \in r.msg THEN "already belongs to"
    ELSE "error"

----------------------------------------------------------------------------
(* The log of external calls *)

DirectoryOps == {"createCustomer", "lookup", "addToDesk", "invite"}

RecordOps == {"support", "parent", "child", "confirmation"}

NoReporter == [kind |-> "none", value |-> NULL]

AccountRef(id) == [kind |-> "accountId", value |-> id]

EmailRef(email) == [kind |-> "emailAddress", value |-> email]

OnBehalfOf(email) == [kind |-> "raiseOnBehalfOf", value |-> email]

\* A call that has been issued and not yet answered.  `arg` is the reporterObject
\* handed to the function that builds the call, `reporter` the reporter reference
\* in the payload sent (for the association call of part_001, `arg` is the account
\* it names), `link` the key of the record this one refers to (0: none),
\* `labels` the labels of the record to create, `key` the key the answer returns (for
\* a lookup, the number of matches), `acct` the account id taken from the answer.
Call(op, site, project, arg, reporter, link) ==
    [ op |-> op, site |-> site, project |-> project, arg |-> arg, reporter |-> reporter,
      link |-> link, labels |-> <<>>, res |-> "pending", key |-> 0, acct |-> NULL ]

\* A call to the directory: no project, no reporter
DirectoryCall(op, site) == Call(op, site, NULL, NoReporter, NoReporter, 0)

\* The association call of part_001: { accountIds: [accountId] } posted to the
\* customers of the service desk
AssociationCall(accountId) ==
    Call("addToDesk", "checkAndInviteCustomer", NULL, AccountRef(accountId), NoReporter, 0)

\* setTimeout(res, 1500)
WaitMs == 1500

Wait(site) ==
    [ op |-> "wait", site |-> site, project |-> NULL, arg |-> NoReporter, reporter |-> NoReporter,
      link |-> WaitMs, labels |-> <<>>, res |-> "pending", key |-> 0, acct |-> NULL ]

\* The call not awaited: the run goes on while it is still in flight
NotAwaited(ev, res, key, acct) == ev

\* The last call of the log, answered
Answered(ev, res, key, acct) ==
    [ev EXCEPT ![Len(ev)] = [@ EXCEPT !.res = res, !.key = key, !.acct = acct]]

\* The external system numbers the records it creates; here by position in the log
NewKey(ev) == Len(ev)

----------------------------------------------------------------------------
(* Start *)

Init ==
    /\ version \in Versions
    /\ env \in Envs
    /\ req = NoRequest
    /\ pc = "idle"
    /\ verified = "none"
    /\ started = FALSE
    /\ cfg = NoCfg
    /\ loc = NoLoc
    /\ events = <<>>
    /\ responses = <<>>
    /\ outcome = "none"
    /\ bg = NoRun
    /\ calc = NoCalc

\* The notification sender posts a request
Receive ==
    /\ pc = "idle"
    /\ req' \in Requests
    /\ pc' = "recv"
    /\ UNCHANGED <<bg, calc, version, env, verified, started, cfg, loc, events, responses,
                   outcome>>

\* the response is never sent
SendNothing(s) == responses

\* res.status(s).send(...)
Send(s) == Append(responses, [status |-> s, at |-> Len(events)])

\* res.status(400).send(...) without the return: the handler goes on and calls
\* processCheckoutSession on an event that was never constructed
RejectWithoutReturn(v) ==
    /\ verified' = v
    /\ responses' = Append(responses, [status |-> 400, at |-> Len(events)])
    /\ pc' = "done"
    /\ started' = TRUE
    /\ outcome' = "failed"
    /\ UNCHANGED <<cfg, loc, events>>

\* return res.status(400).send(...): the handler ends here
Reject(v) ==
    /\ verified' = v
    /\ responses' = Send(400)
    /\ pc' = "done"
    /\ UNCHANGED <<started, cfg, loc, events, outcome>>

\* the run ends inside processCheckoutSession
Finish(ev, result) ==
    /\ events' = ev
    /\ pc' = "done"
    /\ outcome' = result

\* the run issues its next call and awaits the answer
Await(ev, call, at) ==
    /\ events' = Append(ev, call)
    /\ pc' = at
    /\ outcome' = outcome

----------------------------------------------------------------------------
(* Predicates of the code *)

\* the type filter dropped: every verified event is processed
anyEventType(type) == TRUE

\* if (event.type === 'checkout.session.completed')
isCheckoutCompleted(type) == type = CheckoutCompleted

\* stripe.webhooks.constructEvent(body, sig, webhookSecret) returns an event
constructEventSucceeds(r) == r.rawBody /\ r.sigValid

\* the service-desk id forgotten in the condition
onboardingNeedsKeyOnly(c) == Truthy(c.jsmProjectKey)

\* if (jsmProjectKey && jsmServiceDeskId)
onboardingConfigured(c) == Truthy(c.jsmProjectKey) /\ Truthy(c.jsmServiceDeskId)

\* every error of the create-customer call taken for a conflict
alreadyExistsOrAnyError(r) == TRUE

\* const alreadyExists = err.response?.status === 409 || errorMessage.includes('already exists')
alreadyExists(r) == r.status = 409 \/ includes(r, "already exists")

\* index.js: const alreadyAdded = err.response?.status === 409 || ...includes('already belongs to')
alreadyAdded_idx1(r) == r.status = 409 \/ includes(r, "already belongs to")

\* part_001: const alreadyAdded = err.response?.status === 400 || ...includes('already belongs to')
alreadyAdded_p1(r) == r.status = 400 \/ includes(r, "already belongs to")

\* const reporterObject = jiraAccountId ? { accountId: jiraAccountId } : { emailAddress: customerEmail }
reporterObject(id, email) == IF Truthy(id) THEN AccountRef(id) ELSE EmailRef(email)

\* the account id taken from the end of the list of matches
lastMatch(r) == IF r.ok /\ Len(r.data) > 0 THEN r.data[Len(r.data)] ELSE NULL

\* res.data && res.data.length > 0 ? res.data[0].accountId : (nothing)
firstMatch(r) == IF r.ok /\ Len(r.data) > 0 THEN r.data[1] ELSE NULL

\* what the log keeps of a search answer
SearchResult(r) == IF r.ok THEN (IF Len(r.data) > 0 THEN "found" ELSE "none") ELSE "error"

\* res.data.length: the number of matches of a search answer, kept in the log in
\* the place of a key
matches(r) == IF r.ok THEN Len(r.data) ELSE 0

----------------------------------------------------------------------------
(* The preamble of processCheckoutSession: the constants computed before the *)
(* try block.  What throws here rejects the promise the function returned.   *)

\* a JavaScript number: NaN, or an integer
NaN == [nan |-> TRUE, n |-> 0]

Number(n) == [nan |-> FALSE, n |-> n]

isNaN(x) == x.nan

Digits == {"0", "1", "2", "3", "4", "5", "6", "7", "8", "9"}

DigitValue(c) ==
    CASE c = "0" -> 0 [] c = "1" -> 1 [] c = "2" -> 2 [] c = "3" -> 3 [] c = "4" -> 4
      [] c = "5" -> 5 [] c = "6" -> 6 [] c = "7" -> 7 [] c = "8" -> 8 [] c = "9" -> 9

\* the value of the digits of s from position i on, up to the first non-digit
RECURSIVE ParseDigits(_, _, _)
ParseDigits(s, i, acc) ==
    IF i > Len(s) \/ s[i] \notin Digits
    THEN acc
    ELSE ParseDigits(s, i + 1, acc * 10 + DigitValue(s[i]))

\* the first position of s that holds no blank
RECURSIVE SkipBlanks(_, _)
SkipBlanks(s, i) == IF i <= Len(s) /\ s[i] = " " THEN SkipBlanks(s, i + 1) ELSE i

\* parseInt(s, 10): leading blanks, an optional sign, then the longest run of
\* digits; NaN when no digit stands there
parseInt(s) ==
    LET b == SkipBlanks(s, 1)
        signed == b <= Len(s) /\ s[b] \in {"-", "+"}
        d == IF signed THEN b + 1 ELSE b
    IN  IF d > Len(s) \/ s[d] \notin Digits
        THEN NaN
        ELSE IF signed /\ s[b] = "-"
        THEN Number(0 - ParseDigits(s, d, 0))
        ELSE Number(ParseDigits(s, d, 0))

\* the string '5' of `metadata.duration || '5'`
DefaultDuration == <<"5">>

\* const durationDays = parseInt(metadata.duration || '5', 10)
durationDays(session) ==
    parseInt(IF Len(session.duration) > 0 THEN session.duration ELSE DefaultDuration)

\* session.metadata.x read without the default: a TypeError when the object is missing
readsUndefinedWithoutDefault(session) == ~session.hasMetadata \/ ~session.hasCustomerDetails

\* const metadata = session.metadata || {}; const customerDetails =
\* session.customer_details || {}: no field is ever read from undefined
readsUndefined(session) == FALSE

\* new Date(now.getTime() + durationDays * 24 * 60 * 60 * 1000).toISOString() throws
\* a RangeError when the time value is NaN
preambleThrows(session) == readsUndefined(session) \/ isNaN(durationDays(session))

\* the promise of processCheckoutSession is rejected before the try block; the
\* handler's .catch logs it
Rejected ==
    /\ started' = TRUE
    /\ cfg' = cfg
    /\ loc' = loc
    /\ Finish(events, "failed")

----------------------------------------------------------------------------
(* The cloud-function handler, common to index.js (1-221, 223-477),        *)
(* part_000 and part_001.  `process` is the call of processCheckoutSession, *)
(* which runs synchronously up to its first await.                          *)

Ignored ==
    /\ pc' = "done"
    /\ UNCHANGED <<started, cfg, loc, events, outcome>>

stripetojira(process) ==
    IF ~req.rawBody
    THEN Reject("none")
    ELSE IF ~constructEventSucceeds(req)
    THEN Reject("fail")
    ELSE /\ verified' = "ok"
         /\ responses' = Send(200)
         /\ IF isCheckoutCompleted(req.type) THEN process ELSE Ignored

----------------------------------------------------------------------------
(* index.js lines 1-221 *)

normalize_idx1(session) ==
    [ projectKey       |-> NULL,
      jsmProjectKey    |-> OrElse(toUpperCase(session.jsmProjectKey), env.JIRA_JSM_PROJECT_KEY),
      jsmServiceDeskId |-> OrElse(session.jsmServiceDeskId, env.JIRA_JSM_SERVICE_DESK_ID),
      issueType        |-> NULL,
      customerEmail    |-> session.email ]

\* 2: reporter by email; 3: if (jsmProjectKey) createJsmSupportTicket(...)
createJsmSupportTicket_idx1(ev, c) ==
    IF Truthy(c.jsmProjectKey)
    THEN Await(ev, Call("support", "createJsmSupportTicket", c.jsmProjectKey,
                        EmailRef(c.customerEmail), EmailRef(c.customerEmail), 0), "idx1_ticket")
    ELSE Finish(ev, "completed")

processCheckoutSession_idx1 ==
    LET c == normalize_idx1(req.session) IN
    IF preambleThrows(req.session)
    THEN Rejected
    ELSE /\ started' = TRUE
         /\ cfg' = c
         /\ loc' = loc
         /\ IF onboardingConfigured(c)
            THEN Await(events, DirectoryCall("createCustomer", "checkAndInviteCustomer"),
                       "idx1_create")
            ELSE createJsmSupportTicket_idx1(events, c)

Handler_idx1 ==
    /\ version = "idx1"
    /\ pc = "recv"
    /\ stripetojira(processCheckoutSession_idx1)
    /\ UNCHANGED <<bg, calc, version, env, req>>

\* checkAndInviteCustomer, step 1 answered
CustomerCreated_idx1 ==
    /\ pc = "idx1_create"
    /\ \E r \in CustomerResponses \cup ErrorResponses :
         LET ev == Answered(events, Classify(r), 0, IF r.ok THEN r.accountId ELSE NULL) IN
         IF r.ok \/ alreadyExists(r)
         THEN Await(ev, DirectoryCall("addToDesk", "checkAndInviteCustomer"),
                    "idx1_add")
         ELSE Finish(ev, "failed")
    /\ UNCHANGED <<bg, calc, version, env, req, verified, started, cfg, loc, responses>>

\* checkAndInviteCustomer, step 2 answered
CustomerAdded_idx1 ==
    /\ pc = "idx1_add"
    /\ \E r \in {OkResponse} \cup ErrorResponses :
         LET ev == Answered(events, Classify(r), 0, NULL) IN
         IF r.ok \/ alreadyAdded_idx1(r)
         THEN createJsmSupportTicket_idx1(ev, cfg)
         ELSE Finish(ev, "failed")
    /\ UNCHANGED <<bg, calc, version, env, req, verified, started, cfg, loc, responses>>

\* createJsmSupportTicket answered
TicketCreated_idx1 ==
    /\ pc = "idx1_ticket"
    /\ \E r \in {OkResponse} \cup ErrorResponses :
         IF r.ok
         THEN Finish(Answered(events, "ok", NewKey(events), NULL), "completed")
         ELSE Finish(Answered(events, Classify(r), 0, NULL), "failed")
    /\ UNCHANGED <<bg, calc, version, env, req, verified, started, cfg, loc, responses>>

----------------------------------------------------------------------------
(* index.js lines 223-477 *)

\* Line 296 reads `event`, which is not in scope in processCheckoutSession: the
\* call throws a ReferenceError before the session is read, the returned promise
\* is rejected and the handler's .catch logs it.  No external call is issued.
processCheckoutSession_idx2 ==
    /\ started' = TRUE
    /\ cfg' = cfg
    /\ loc' = loc
    /\ Finish(events, "failed")

Handler_idx2 ==
    /\ version = "idx2"
    /\ pc = "recv"
    /\ stripetojira(processCheckoutSession_idx2)
    /\ UNCHANGED <<bg, calc, version, env, req>>

----------------------------------------------------------------------------
(* index.js lines 479-615: the express route *)

normalize_idx3(session) ==
    [ projectKey       |-> toUpperCase(session.project),
      jsmProjectKey    |-> NULL,
      jsmServiceDeskId |-> NULL,
      issueType        |-> OrElse(session.issue, "Task"),
      customerEmail    |-> session.email ]

\* verification, the type filter and the first axios.post.  The preamble is the
\* route's own: when it throws, the async route function rejects and no response
\* is ever sent.
Handler_idx3 ==
    /\ version = "idx3"
    /\ pc = "recv"
    /\ IF ~constructEventSucceeds(req)
       THEN Reject("fail")
       ELSE /\ verified' = "ok"
            /\ IF ~isCheckoutCompleted(req.type)
               THEN /\ responses' = Send(200)
                    /\ Ignored
               ELSE LET c == normalize_idx3(req.session) IN
                    /\ responses' = responses
                    /\ IF preambleThrows(req.session)
                       THEN Rejected
                       ELSE /\ started' = TRUE
                            /\ cfg' = c
                            /\ loc' = loc
                            /\ Await(events, Call("parent", "route", c.projectKey,
                                                  NoReporter, NoReporter, 0), "idx3_epic")
    /\ UNCHANGED <<bg, calc, version, env, req>>

\* 1. Create The Epic: answered
EpicCreated_idx3 ==
    /\ pc = "idx3_epic"
    /\ \E r \in {OkResponse} \cup ErrorResponses :
         IF r.ok
         THEN LET epicKey == NewKey(events) IN
              /\ Await(Answered(events, "ok", epicKey, NULL),
                       Call("child", "route", cfg.projectKey, NoReporter,
                            OnBehalfOf(cfg.customerEmail), epicKey),
                       "idx3_task")
              /\ responses' = responses
         ELSE /\ Finish(Answered(events, Classify(r), 0, NULL), "failed")
              /\ responses' = Send(500)
    /\ UNCHANGED <<bg, calc, version, env, req, verified, started, cfg, loc>>

\* 2. Create Task in Epic: answered
TaskCreated_idx3 ==
    /\ pc = "idx3_task"
    /\ \E r \in {OkResponse} \cup ErrorResponses :
         IF r.ok
         THEN /\ Finish(Answered(events, "ok", NewKey(events), NULL), "completed")
              /\ responses' = Send(200)
         ELSE /\ Finish(Answered(events, Classify(r), 0, NULL), "failed")
              /\ responses' = Send(500)
    /\ UNCHANGED <<bg, calc, version, env, req, verified, started, cfg, loc>>

----------------------------------------------------------------------------
(* part_002: the route body is a stub; it reads the signature header and    *)
(* returns without verifying and without answering.                         *)

Handler_p2 ==
    /\ version = "p2"
    /\ pc = "recv"
    /\ pc' = "done"
    /\ UNCHANGED <<bg, calc, version, env, req, verified, started, cfg, loc, events, responses,
                   outcome>>

----------------------------------------------------------------------------
(* part_000 *)

normalize_p0(session) ==
    [ projectKey       |-> OrElse(toUpperCase(session.project), NULL),
      jsmProjectKey    |-> OrElse(toUpperCase(session.jsmProjectKey), env.JIRA_JSM_PROJECT_KEY),
      jsmServiceDeskId |-> OrElse(session.jsmServiceDeskId, env.JIRA_JSM_SERVICE_DESK_ID),
      issueType        |-> OrElse(session.issue, "Task"),
      customerEmail    |-> session.email ]

\* if (issueType.toLowerCase() === 'support' && jsmProjectKey)
supportSelected_p0(c) == toLowerCase(c.issueType) = "support" /\ Truthy(c.jsmProjectKey)

\* else if (jiraSoftwareProjectKey)
softwareSelected_p0(c) == Truthy(c.projectKey)

\* the confirmation is created whether or not a service-desk key is configured
confirmationAlways_p0(c) == TRUE

\* if (jsmProjectKey) await createJsmOrderConfirmation(...)
confirmationSelected_p0(c) == Truthy(c.jsmProjectKey)

\* 3: Workflows, up to the first call of the selected one
workflows_p0(ev, c, jiraAccountId) ==
    LET reporter == reporterObject(jiraAccountId, c.customerEmail) IN
    IF supportSelected_p0(c)
    THEN Await(ev, Call("support", "createJsmSupportTicket", c.jsmProjectKey,
                        reporter, reporter, 0), "p0_ticket")
    ELSE IF softwareSelected_p0(c)
    THEN Await(ev, Call("parent", "createJiraSoftwareWork", c.projectKey,
                        reporter, NoReporter, 0), "p0_epic")
    ELSE Finish(ev, "completed")

\* 2: getJiraAccountIdByEmail(customerEmail, ...) up to its await
getJiraAccountIdByEmail_p0(ev, c) ==
    IF ~Truthy(c.customerEmail)
    THEN workflows_p0(ev, c, NULL)
    ELSE Await(ev, DirectoryCall("lookup", "processCheckoutSession"), "p0_lookup")

processCheckoutSession_p0 ==
    LET c == normalize_p0(req.session) IN
    IF preambleThrows(req.session)
    THEN Rejected
    ELSE /\ started' = TRUE
         /\ cfg' = c
         /\ loc' = loc
         /\ IF onboardingConfigured(c)
            THEN Await(events, DirectoryCall("createCustomer", "checkAndInviteCustomer"),
                       "p0_create")
            ELSE getJiraAccountIdByEmail_p0(events, c)

Handler_p0 ==
    /\ version = "p0"
    /\ pc = "recv"
    /\ stripetojira(processCheckoutSession_p0)
    /\ UNCHANGED <<bg, calc, version, env, req>>

\* the unexpected error rethrown, as checkAndInviteCustomer of index.js does
CustomerCreatedOrThrown_p0 ==
    /\ pc = "p0_create"
    /\ \E r \in CustomerResponses \cup ErrorResponses :
         LET ev == Answered(events, Classify(r), 0, IF r.ok THEN r.accountId ELSE NULL) IN
         IF r.ok \/ alreadyExists(r)
         THEN Await(ev, DirectoryCall("invite", "sendCustomerInvite"), "p0_invite")
         ELSE Finish(ev, "failed")
    /\ UNCHANGED <<bg, calc, version, env, req, verified, started, cfg, loc, responses>>

\* checkAndInviteCustomer answered: every error is logged and swallowed
CustomerCreated_p0 ==
    /\ pc = "p0_create"
    /\ \E r \in CustomerResponses \cup ErrorResponses :
         Await(Answered(events, Classify(r), 0, IF r.ok THEN r.accountId ELSE NULL),
               DirectoryCall("invite", "sendCustomerInvite"), "p0_invite")
    /\ UNCHANGED <<bg, calc, version, env, req, verified, started, cfg, loc, responses>>

\* sendCustomerInvite answered: every error is logged and swallowed
CustomerInvited_p0 ==
    /\ pc = "p0_invite"
    /\ \E r \in {OkResponse} \cup ErrorResponses :
         getJiraAccountIdByEmail_p0(Answered(events, Classify(r), 0, NULL), cfg)
    /\ UNCHANGED <<bg, calc, version, env, req, verified, started, cfg, loc, responses>>

\* getJiraAccountIdByEmail answered: an error gives null
AccountSearched_p0 ==
    /\ pc = "p0_lookup"
    /\ \E r \in SearchResponses \cup ErrorResponses :
         LET id == firstMatch(r) IN
         /\ loc' = [loc EXCEPT !.jiraAccountId = id]
         /\ workflows_p0(Answered(events, SearchResult(r), matches(r), id), cfg, id)
    /\ UNCHANGED <<bg, calc, version, env, req, verified, started, cfg, responses>>

\* createJsmSupportTicket answered
TicketCreated_p0 ==
    /\ pc = "p0_ticket"
    /\ \E r \in {OkResponse} \cup ErrorResponses :
         IF r.ok
         THEN Finish(Answered(events, "ok", NewKey(events), NULL), "completed")
         ELSE Finish(Answered(events, Classify(r), 0, NULL), "failed")
    /\ UNCHANGED <<bg, calc, version, env, req, verified, started, cfg, loc, responses>>

\* createJiraSoftwareWork: the parent record answered
EpicCreated_p0 ==
    /\ pc = "p0_epic"
    /\ \E r \in {OkResponse} \cup ErrorResponses :
         IF r.ok
         THEN LET epicKey == NewKey(events) IN
              Await(Answered(events, "ok", epicKey, NULL),
                    Call("child", "createJiraSoftwareWork", cfg.projectKey,
                         reporterObject(loc.jiraAccountId, cfg.customerEmail),
                         reporterObject(loc.jiraAccountId, cfg.customerEmail), epicKey),
                    "p0_task")
         ELSE Finish(Answered(events, Classify(r), 0, NULL), "failed")
    /\ UNCHANGED <<bg, calc, version, env, req, verified, started, cfg, loc, responses>>

\* createJiraSoftwareWork returned the task key; if (jsmProjectKey) createJsmOrderConfirmation
TaskCreated_p0 ==
    /\ pc = "p0_task"
    /\ \E r \in {OkResponse} \cup ErrorResponses :
         IF r.ok
         THEN LET taskKey == NewKey(events) IN
              IF confirmationSelected_p0(cfg)
              THEN Await(Answered(events, "ok", taskKey, NULL),
                         Call("confirmation", "createJsmOrderConfirmation", cfg.jsmProjectKey,
                              reporterObject(loc.jiraAccountId, cfg.customerEmail),
                              reporterObject(loc.jiraAccountId, cfg.customerEmail), taskKey),
                         "p0_conf")
              ELSE Finish(Answered(events, "ok", taskKey, NULL), "completed")
         ELSE Finish(Answered(events, Classify(r), 0, NULL), "failed")
    /\ UNCHANGED <<bg, calc, version, env, req, verified, started, cfg, loc, responses>>

\* createJsmOrderConfirmation answered
ConfirmationCreated_p0 ==
    /\ pc = "p0_conf"
    /\ \E r \in {OkResponse} \cup ErrorResponses :
         IF r.ok
         THEN Finish(Answered(events, "ok", NewKey(events), NULL), "completed")
         ELSE Finish(Answered(events, Classify(r), 0, NULL), "failed")
    /\ UNCHANGED <<bg, calc, version, env, req, verified, started, cfg, loc, responses>>

----------------------------------------------------------------------------
(* part_001 *)

\* checkAndInviteCustomer(..., 3): the retry budget of the search
Retries == 3

\* getJiraAccountIdByEmail(customerEmail, jiraDomain, headers, 1)
QuickRetries == 1

normalize_p1(session) ==
    [ projectKey       |-> NULL,
      jsmProjectKey    |-> OrElse(toUpperCase(session.jsmProjectKey), env.JIRA_JSM_PROJECT_KEY),
      jsmServiceDeskId |-> OrElse(session.jsmServiceDeskId, env.JIRA_JSM_SERVICE_DESK_ID),
      issueType        |-> NULL,
      customerEmail    |-> session.email ]

\* the wait placed after every attempt, the last included
waitsAfterEveryAttempt(attempt, retries) == attempt <= retries

\* if (attempt < retries) await new Promise(res => setTimeout(res, 1500))
waitsBeforeRetry(attempt, retries) == attempt < retries

\* for (let attempt = 1; attempt <= retries; attempt++)
loopContinues(attempt, retries) == attempt <= retries

\* if (typeof wasNewCustomer === 'string'): checkAndInviteCustomer returns a boolean
returnedAccountId(wasNewCustomer) == wasNewCustomer \notin BOOLEAN

\* the quick search dropped: processCheckoutSession never searches on its own
searchesNever(wasNewCustomer) == FALSE

\* the quick search made after every onboarding, a successful one included
searchesAlways(wasNewCustomer) == TRUE

\* else if (wasNewCustomer === false)
searchesAgain(wasNewCustomer) == wasNewCustomer = FALSE

\* createdNewUser = true placed after the try/catch: set on a conflict too
markCreatedAlways(r) == TRUE

\* createdNewUser = true, after a create-customer call that did not throw
markCreated(r) == r.ok

\* const SOURCE_VALUE = 'Stripe'
SOURCE_VALUE == "Stripe"

\* every record labelled as a new customer's
labelsAlwaysNew(wasNewCustomer) == <<SOURCE_VALUE, "NewCustomer">>

\* const labels = [SOURCE_VALUE]; labels.push(wasNewCustomer ? 'NewCustomer' : 'ExistingCustomer')
labels(wasNewCustomer) ==
    Append(<<SOURCE_VALUE>>, IF wasNewCustomer THEN "NewCustomer" ELSE "ExistingCustomer")

\* 2-3: reporterObject; if (jsmProjectKey) createJsmCustomerRequest(...).  The request
\* goes to process.env.JIRA_JSM_SERVICE_DESK_ID on behalf of customerData.email, with
\* the labels of wasNewCustomer.
createJsmCustomerRequest_p1(ev, l) ==
    /\ loc' = l
    /\ IF Truthy(cfg'.jsmProjectKey)
       THEN Await(ev, [Call("support", "createJsmCustomerRequest",
                            env.JIRA_JSM_SERVICE_DESK_ID,
                            reporterObject(l.jiraAccountId, cfg'.customerEmail),
                            OnBehalfOf(cfg'.customerEmail), 0)
                         EXCEPT !.labels = labels(l.wasNewCustomer)], "p1_request")
       ELSE Finish(ev, "completed")

\* getJiraAccountIdByEmail: entry, first attempt issued
getJiraAccountIdByEmail_p1(ev, l, site, retries) ==
    /\ loc' = [l EXCEPT !.attempt = 1, !.retries = retries, !.site = site]
    /\ Await(ev, DirectoryCall("lookup", site), "p1_search")

\* processCheckoutSession after the onboarding step, lines 233-247
resolveReporter_p1(ev, l, wasNewCustomer) ==
    IF returnedAccountId(wasNewCustomer)
    THEN createJsmCustomerRequest_p1(ev, [l EXCEPT !.jiraAccountId = wasNewCustomer,
                                                   !.wasNewCustomer = TRUE])
    ELSE IF searchesAgain(wasNewCustomer)
    THEN getJiraAccountIdByEmail_p1(ev, [l EXCEPT !.wasNewCustomer = wasNewCustomer],
                                    "processCheckoutSession", QuickRetries)
    ELSE createJsmCustomerRequest_p1(ev, [l EXCEPT !.wasNewCustomer = wasNewCustomer])

\* step 3 entered whether or not an account id is known
addToServiceDeskWithoutId_p1(ev, l, accountId) ==
    /\ loc' = [l EXCEPT !.accountId = accountId]
    /\ Await(ev, AssociationCall(accountId), "p1_add")

\* checkAndInviteCustomer from step 2's result on: return false, or step 3
addToServiceDesk_p1(ev, l, accountId) ==
    IF ~Truthy(accountId)
    THEN resolveReporter_p1(ev, [l EXCEPT !.accountId = accountId], FALSE)
    ELSE /\ loc' = [l EXCEPT !.accountId = accountId]
         /\ Await(ev, AssociationCall(accountId), "p1_add")

processCheckoutSession_p1 ==
    LET c == normalize_p1(req.session) IN
    IF preambleThrows(req.session)
    THEN Rejected
    ELSE /\ started' = TRUE
         /\ cfg' = c
         /\ IF onboardingConfigured(c)
            THEN /\ loc' = loc
                 /\ Await(events, DirectoryCall("createCustomer", "checkAndInviteCustomer"),
                          "p1_create")
            ELSE resolveReporter_p1(events, loc, FALSE)

Handler_p1 ==
    /\ version = "p1"
    /\ pc = "recv"
    /\ stripetojira(processCheckoutSession_p1)
    /\ UNCHANGED <<bg, calc, version, env, req>>

\* checkAndInviteCustomer, step 1 answered
CustomerCreated_p1 ==
    /\ pc = "p1_create"
    /\ cfg' = cfg
    /\ \E r \in CustomerResponses \cup ErrorResponses :
         LET id == IF r.ok THEN r.accountId ELSE NULL
             ev == Answered(events, Classify(r), 0, id)
             l  == [loc EXCEPT !.accountId = id, !.createdNewUser = markCreated(r)]
         IN  IF r.ok \/ alreadyExists(r)
             THEN IF Truthy(id)
                  THEN addToServiceDesk_p1(ev, l, id)
                  ELSE getJiraAccountIdByEmail_p1(ev, l, "checkAndInviteCustomer", Retries)
             ELSE /\ loc' = loc
                  /\ Finish(ev, "failed")
    /\ UNCHANGED <<bg, calc, version, env, req, verified, started, responses>>

\* getJiraAccountIdByEmail returned `id` (null: nothing found) to its caller
searchReturned_p1(ev, l, id) ==
    IF l.site = "checkAndInviteCustomer"
    THEN addToServiceDesk_p1(ev, l, id)
    ELSE createJsmCustomerRequest_p1(ev, [l EXCEPT !.jiraAccountId = id])

\* for (...; attempt <= retries; attempt++): the next round of the loop
nextAttempt_p1(ev, l) ==
    IF loopContinues(l.attempt + 1, l.retries)
    THEN /\ loc' = [l EXCEPT !.attempt = @ + 1]
         /\ Await(ev, DirectoryCall("lookup", l.site), "p1_search")
    ELSE searchReturned_p1(ev, l, NULL)

\* the catch inside the loop dropped: a failed attempt is thrown to the caller
AccountSearchedOrThrown_p1 ==
    /\ pc = "p1_search"
    /\ cfg' = cfg
    /\ \E r \in SearchResponses \cup ErrorResponses :
         LET id == firstMatch(r)
             ev == Answered(events, SearchResult(r), matches(r), id)
         IN  IF ~r.ok
             THEN /\ loc' = loc
                  /\ Finish(ev, "failed")
             ELSE IF Truthy(id)
             THEN searchReturned_p1(ev, loc, id)
             ELSE IF waitsBeforeRetry(loc.attempt, loc.retries)
             THEN /\ loc' = loc
                  /\ Await(ev, Wait(loc.site), "p1_wait")
             ELSE nextAttempt_p1(ev, loc)
    /\ UNCHANGED <<bg, calc, version, env, req, verified, started, responses>>

\* getJiraAccountIdByEmail: one attempt answered
AccountSearched_p1 ==
    /\ pc = "p1_search"
    /\ cfg' = cfg
    /\ \E r \in SearchResponses \cup ErrorResponses :
         LET id == firstMatch(r)
             ev == Answered(events, SearchResult(r), matches(r), id)
         IN  IF Truthy(id)
             THEN searchReturned_p1(ev, loc, id)
             ELSE IF waitsBeforeRetry(loc.attempt, loc.retries)
             THEN /\ loc' = loc
                  /\ Await(ev, Wait(loc.site), "p1_wait")
             ELSE nextAttempt_p1(ev, loc)
    /\ UNCHANGED <<bg, calc, version, env, req, verified, started, responses>>

\* new Promise(res => setTimeout(...)) whose `res` is never called: the promise
\* stays pending and the loop never resumes
RetryTimerLost_p1 ==
    /\ pc = "p1_wait"
    /\ pc = "done"
    /\ UNCHANGED vars

\* the 1.5 s timer fired: next attempt
RetryTimerFired_p1 ==
    /\ pc = "p1_wait"
    /\ cfg' = cfg
    /\ nextAttempt_p1(Answered(events, "ok", 0, NULL), loc)
    /\ UNCHANGED <<bg, calc, version, env, req, verified, started, responses>>

\* checkAndInviteCustomer, step 3 answered
CustomerAdded_p1 ==
    /\ pc = "p1_add"
    /\ cfg' = cfg
    /\ \E r \in {OkResponse} \cup ErrorResponses :
         LET ev == Answered(events, Classify(r), 0, NULL) IN
         IF r.ok \/ alreadyAdded_p1(r)
         THEN resolveReporter_p1(ev, loc, loc.createdNewUser)
         ELSE /\ loc' = loc
              /\ Finish(ev, "failed")
    /\ UNCHANGED <<bg, calc, version, env, req, verified, started, responses>>

\* jiraPost with a retry: a failed creation of the request is posted once more
RequestCreatedOrRetried_p1 ==
    /\ pc = "p1_request"
    /\ \E r \in {OkResponse} \cup ErrorResponses :
         IF r.ok
         THEN Finish(Answered(events, "ok", NewKey(events), NULL), "completed")
         ELSE IF Len(SelectSeq(events, LAMBDA e : e.op = "support")) < 2
         THEN Await(Answered(events, Classify(r), 0, NULL),
                    [events[Len(events)] EXCEPT !.res = "pending"], "p1_request")
         ELSE Finish(Answered(events, Classify(r), 0, NULL), "failed")
    /\ UNCHANGED <<bg, calc, version, env, req, verified, started, cfg, loc, responses>>

\* createJsmCustomerRequest answered
RequestCreated_p1 ==
    /\ pc = "p1_request"
    /\ \E r \in {OkResponse} \cup ErrorResponses :
         IF r.ok
         THEN Finish(Answered(events, "ok", NewKey(events), NULL), "completed")
         ELSE Finish(Answered(events, Classify(r), 0, NULL), "failed")
    /\ UNCHANGED <<bg, calc, version, env, req, verified, started, cfg, loc, responses>>

----------------------------------------------------------------------------

Next ==
    \/ Receive
    \/ Handler_idx1 \/ CustomerCreated_idx1 \/ CustomerAdded_idx1 \/ TicketCreated_idx1
    \/ Handler_idx2
    \/ Handler_idx3 \/ EpicCreated_idx3 \/ TaskCreated_idx3
    \/ Handler_p0 \/ CustomerCreated_p0 \/ CustomerInvited_p0 \/ AccountSearched_p0
    \/ TicketCreated_p0 \/ EpicCreated_p0 \/ TaskCreated_p0 \/ ConfirmationCreated_p0
    \/ Handler_p1 \/ CustomerCreated_p1 \/ AccountSearched_p1 \/ RetryTimerFired_p1
    \/ CustomerAdded_p1 \/ RequestCreated_p1
    \/ Handler_p2

Spec == Init /\ [][Next]_vars

----------------------------------------------------------------------------
(* The dates and the summary of the payload, computed from one session.      *)
(* Times are in seconds since 1970-01-01T00:00:00Z: the code's milliseconds  *)
(* divided by 1000, which leaves every date unchanged.                       *)

\* 24 * 60 * 60 * 1000 ms
DayLength == 24 * 60 * 60

\* const now = new Date(): 2023-12-31T23:59:59Z, 2024-02-28T00:00:00Z,
\* 2024-02-29T12:00:00Z, 2025-02-28T23:59:59Z
Clock == {1704067199, 1709078400, 1709208000, 1740787199}

\* The duration strings given to parseInt: up to MaxDurationLen characters
MaxDurationLen == 2

DurationAlphabet == {"1", "5", "a", "-", " "}

DurationStrings == UNION { [1..n -> DurationAlphabet] : n \in 0..MaxDurationLen }

\* metadata.summary
Summaries == {NULL, "", "Audit"}

\* The proleptic Gregorian date <<year, month, day>> of a day number (days since
\* 1970-01-01), as Date.prototype.toISOString computes it
civilFromDays(days) ==
    LET z   == days + 719468
        era == z \div 146097
        doe == z - era * 146097
        yoe == (doe - (doe \div 1460) + (doe \div 36524) - (doe \div 146096)) \div 365
        doy == doe - (365 * yoe + (yoe \div 4) - (yoe \div 100))
        mp  == (5 * doy + 2) \div 153
        d   == doy - ((153 * mp + 2) \div 5) + 1
        m   == IF mp < 10 THEN mp + 3 ELSE mp - 9
        y   == yoe + era * 400
    IN  <<IF m <= 2 THEN y + 1 ELSE y, m, d>>

DigitChar(n) ==
    CASE n = 0 -> "0" [] n = 1 -> "1" [] n = 2 -> "2" [] n = 3 -> "3" [] n = 4 -> "4"
      [] n = 5 -> "5" [] n = 6 -> "6" [] n = 7 -> "7" [] n = 8 -> "8" [] n = 9 -> "9"

\* n in decimal, padded with zeros to `width` characters
RECURSIVE Pad(_, _)
Pad(n, width) ==
    IF width = 0 THEN <<>> ELSE Append(Pad(n \div 10, width - 1), DigitChar(n % 10))

\* new Date(t).toISOString().split('T')[0]
toISODate(t) ==
    LET c == civilFromDays(t \div DayLength)
    IN  Pad(c[1], 4) \o <<"-">> \o Pad(c[2], 2) \o <<"-">> \o Pad(c[3], 2)

\* const summary = metadata.summary || 'New Support Request'
summaryOrDefault(summary) == OrElse(summary, "New Support Request")

\* index.js: summary: `Support Request for ${summary}`
supportSummary_idx1(summary) == "Support Request for " \o summary

\* part_001: "summary": summary
requestSummary_p1(summary) == summary

\* customerDetails.address: absent, or an object whose components are each absent,
\* empty or a text of its own
Addresses ==
    {NoAddress} \cup
    [ present     : {TRUE},
      line1       : {NULL, "", "12 Elm St"},
      city        : {NULL, "", "Cork"},
      postal_code : {NULL, "", "T12"},
      country     : {NULL, "", "IE"} ]

\* array.join(sep)
RECURSIVE join(_, _)
join(parts, sep) ==
    IF parts = <<>> THEN ""
    ELSE IF Len(parts) = 1 THEN parts[1]
    ELSE parts[1] \o sep \o join(Tail(parts), sep)

\* const address = customerDetails.address || {}: the components read from it
components(address) ==
    IF address.present
    THEN <<address.line1, address.city, address.postal_code, address.country>>
    ELSE <<NULL, NULL, NULL, NULL>>

\* the filter dropped: every component is joined, the absent ones as they print
companyAddressUnfiltered(address) == OrElse(join(components(address), ", "), "N/A")

\* [address.line1, address.city, address.postal_code, address.country]
\*     .filter(Boolean).join(', ') || 'N/A'
companyAddress(address) ==
    OrElse(join(SelectSeq(components(address), Truthy), ", "), "N/A")

InitPayload ==
    /\ version \in {"idx1", "p1"}
    /\ env = [JIRA_JSM_PROJECT_KEY |-> "HELP", JIRA_JSM_SERVICE_DESK_ID |-> "1"]
    /\ req = NoRequest
    /\ pc = "idle"
    /\ verified = "none"
    /\ started = FALSE
    /\ cfg = NoCfg
    /\ loc = NoLoc
    /\ events = <<>>
    /\ responses = <<>>
    /\ outcome = "none"
    /\ bg = NoRun
    /\ calc \in { [NoCalc EXCEPT !.step = "input", !.duration = d, !.now = t, !.summary = s,
                                  !.address = a] :
                    d \in DurationStrings, t \in Clock, s \in Summaries, a \in Addresses }

\* Customer of processCheckoutSession: the joined postal address of customerData
BuildCustomerData ==
    /\ calc.step = "input"
    /\ calc' = [calc EXCEPT !.step = "customer",
                            !.companyAddress = companyAddress(calc.address)]
    /\ UNCHANGED <<bg, version, env, req, pc, verified, started, cfg, loc, events, responses,
                   outcome>>

\* Metadata and Dates of processCheckoutSession: durationDays, startDate, endDate
ComputeDates ==
    /\ calc.step = "customer"
    /\ LET d     == durationDays(calc)
           start == toISODate(calc.now)
       IN  calc' = IF isNaN(d)
                   THEN [calc EXCEPT !.step = "thrown", !.durationDays = d,
                                     !.startDate = start]
                   ELSE [calc EXCEPT !.step = "dates", !.durationDays = d,
                                     !.startDate = start,
                                     !.endDate = toISODate(calc.now + d.n * DayLength)]
    /\ UNCHANGED <<bg, version, env, req, pc, verified, started, cfg, loc, events, responses,
                   outcome>>

\* createJsmSupportTicket of index.js builds the fields of the issue
BuildSupportTicket_idx1 ==
    /\ version = "idx1"
    /\ calc.step = "dates"
    /\ calc' = [calc EXCEPT !.step = "sent",
                            !.sent = supportSummary_idx1(summaryOrDefault(calc.summary))]
    /\ UNCHANGED <<bg, version, env, req, pc, verified, started, cfg, loc, events, responses,
                   outcome>>

\* createJsmCustomerRequest of part_001 builds the payload of the request
BuildCustomerRequest_p1 ==
    /\ version = "p1"
    /\ calc.step = "dates"
    /\ calc' = [calc EXCEPT !.step = "sent",
                            !.sent = requestSummary_p1(summaryOrDefault(calc.summary))]
    /\ UNCHANGED <<bg, version, env, req, pc, verified, started, cfg, loc, events, responses,
                   outcome>>

NextPayload == BuildCustomerData \/ ComputeDates \/ BuildSupportTicket_idx1 \/ BuildCustomerRequest_p1

SpecPayload == InitPayload /\ [][NextPayload]_vars

----------------------------------------------------------------------------
(* Vocabulary of the properties *)

Done == pc = "done"

\* issueKind, defaulted, equals "support" case-insensitively
IssueKindIsSupport == toLowerCase(OrElse(req.session.issue, "Task")) = "support"

\* a service-desk key is configured, in the metadata or in the environment
ServiceDeskKeyConfigured ==
    Truthy(req.session.jsmProjectKey) \/ Truthy(env.JIRA_JSM_PROJECT_KEY)

\* a service-desk id is configured, in the metadata or in the environment
ServiceDeskIdConfigured ==
    Truthy(req.session.jsmServiceDeskId) \/ Truthy(env.JIRA_JSM_SERVICE_DESK_ID)

\* a workspace project key is configured in the metadata
WorkspaceKeyConfigured == Truthy(req.session.project)

\* d is a decimal numeral: digits only, at least one
Numeral(d) == Len(d) > 0 /\ \A i \in 1..Len(d) : d[i] \in Digits

\* the duration metadata is absent or numeric: the dates of the run can be computed
DatesComputable ==
    req.session.duration = NoDuration \/ Numeral(req.session.duration)

\* positions in the log of the calls of one kind
Indices(op) == { i \in 1..Len(events) : events[i].op = op }

\* ... issued by one function
IndicesAt(op, site) == { i \in Indices(op) : events[i].site = site }

Count(op) == Cardinality(Indices(op))

RecordCalls == { i \in 1..Len(events) : events[i].op \in RecordOps }

DirectoryCalls == { i \in 1..Len(events) : events[i].op \in DirectoryOps }

\* no call of the log was answered with an error
AllSucceeded == \A i \in 1..Len(events) : events[i].res \in {"ok", "found", "none"}

Created(op) == { i \in Indices(op) : events[i].res = "ok" }

----------------------------------------------------------------------------
(* C1 *)

\* C1: a run whose issueKind is "support" (any case) makes at most one
\* record-creation call, that call creates the support record in the service-desk
\* project, no parent or child record of the workspace project is created, and
\* when every call succeeds and a service-desk key is configured exactly one
\* service-desk record exists at the end.  Stated for index.js 1-221 and part_000,
\* for runs whose dates can be computed.
C1_SupportCreatesOneDeskRecord ==
    (version \in {"idx1", "p0"} /\ started /\ DatesComputable /\ IssueKindIsSupport) =>
        /\ Cardinality(RecordCalls) <= 1
        /\ \A i \in RecordCalls : events[i].op = "support"
        /\ Indices("parent") = {} /\ Indices("child") = {}
        /\ (Done /\ AllSucceeded /\ ServiceDeskKeyConfigured) =>
               Cardinality(Created("support")) = 1

----------------------------------------------------------------------------
(* C2 *)

\* C2: a run whose issueKind is not "support", with a workspace project key
\* configured, creates the parent before the child, the child is linked to the key
\* the parent creation returned, and when every call succeeds exactly one parent
\* and one child exist in the workspace project at the end.  Stated for
\* index.js 223-477, index.js 479-615 and part_000, for runs whose dates can be
\* computed.
C2_ParentThenLinkedChild ==
    (version \in {"idx2", "idx3", "p0"} /\ started /\ DatesComputable /\ ~IssueKindIsSupport
        /\ WorkspaceKeyConfigured) =>
        /\ Count("parent") <= 1 /\ Count("child") <= 1
        /\ \A j \in Indices("child") :
             \E i \in Created("parent") :
                /\ i < j
                /\ events[j].link = events[i].key
                /\ events[j].project = events[i].project
                /\ events[i].project = toUpperCase(req.session.project)
        /\ (Done /\ AllSucceeded) =>
               /\ Cardinality(Created("parent")) = 1
               /\ Cardinality(Created("child")) = 1

----------------------------------------------------------------------------
(* C3 *)

\* C3: in the work-item variant (index.js 223-477, part_000) the confirmation
\* record's creation is called if and only if a service-desk key is configured and
\* the child record was created; it is called at most once, after the child
\* creation returned, in the service-desk project, and it refers to the key the
\* child creation returned.
C3_ConfirmationIffKeyAndChild ==
    (version \in {"idx2", "p0"} /\ started) =>
        /\ Count("confirmation") <= 1
        /\ (Indices("confirmation") # {}) <=>
               (ServiceDeskKeyConfigured /\ Created("child") # {})
        /\ \A k \in Indices("confirmation") :
             \E j \in Created("child") :
                /\ j < k
                /\ events[k].link = events[j].key
                /\ events[k].project = cfg.jsmProjectKey

\* C3 witness: part_000 has called the confirmation creation after the child
C3_Witness ==
    /\ version = "p0"
    /\ Indices("confirmation") # {}
    /\ Created("child") # {}

----------------------------------------------------------------------------
(* C4 *)

ResolverLookups == IndicesAt("lookup", "checkAndInviteCustomer")

OrchestratorLookups == IndicesAt("lookup", "processCheckoutSession")

\* a wait lies between the calls at positions i and j
WaitBetween(i, j) == \E k \in Indices("wait") : i < k /\ k < j

\* the last lookup of the log
LastLookup(i) == i \in Indices("lookup") /\ \A j \in Indices("lookup") : j <= i

\* C4 as stated: a run makes at most 3 directory lookups, a wait step lies between
\* every two consecutive lookups, and no wait step follows the last lookup.
C4_AtMostThreeLookups ==
    /\ Count("lookup") <= 3
    /\ \A i, j \in Indices("lookup") : i < j => WaitBetween(i, j)
    /\ Done => \A i \in Indices("lookup") : LastLookup(i) => ~WaitBetween(i, Len(events) + 1)

\* C4 amended: the search inside checkAndInviteCustomer makes at most 3 lookups,
\* with one 1.5 s wait between every two consecutive ones and none after its last;
\* processCheckoutSession may then make one more lookup, which no wait precedes, so
\* a run makes at most 4 lookups.
C4_RetryLoopThenOneMoreLookup ==
    /\ Cardinality(ResolverLookups) <= 3
    /\ Cardinality(OrchestratorLookups) <= 1
    /\ Count("lookup") <= 4
    /\ \A i, j \in ResolverLookups : i < j => WaitBetween(i, j)
    /\ \A k \in Indices("wait") :
         /\ events[k].link = 1500
         /\ k > 1 /\ (k - 1) \in ResolverLookups
         /\ IF k = Len(events) THEN pc = "p1_wait" ELSE (k + 1) \in ResolverLookups
    /\ \A j \in OrchestratorLookups :
         /\ j > 1 => events[j - 1].op # "wait"
         /\ \A i \in ResolverLookups : i < j

\* C4 witness: a finished run with three lookups of the retry loop and a fourth by
\* processCheckoutSession
C4_Witness ==
    /\ Done
    /\ Cardinality(ResolverLookups) = 3
    /\ Cardinality(OrchestratorLookups) = 1
    /\ Count("wait") = 2

----------------------------------------------------------------------------
(* C5 *)

\* checkAndInviteCustomer of part_001 has returned its flag to processCheckoutSession
ResolverReturned ==
    /\ version = "p1"
    /\ Count("createCustomer") = 1
    /\ \E i \in 1..Len(events) :
         events[i].site \in {"processCheckoutSession", "createJsmCustomerRequest"}

\* the create-customer call succeeded
CustomerCreated == Created("createCustomer") # {}

\* the create-customer call succeeded and its answer held an account id
CustomerCreatedWithId == \E i \in Created("createCustomer") : Truthy(events[i].acct)

\* checkAndInviteCustomer obtained an account id, from the create answer or a lookup
ResolverObtainedId ==
    \E i \in 1..Len(events) :
        events[i].site = "checkAndInviteCustomer" /\ Truthy(events[i].acct)

----------------------------------------------------------------------------
(* C6 *)

\* the call at position i was answered with the conflict signal of its step
ConflictAt(i) ==
    \/ events[i].op = "createCustomer" /\ events[i].res \in {"409", "already exists"}
    \/ events[i].op = "lookup" /\ events[i].res = "error"
    \/ events[i].op = "addToDesk" /\ events[i].res \in {"409", "already belongs to"}

\* C6: a conflict answer (409, or the step's conflict phrase) of the create-customer
\* call, of a lookup or of the add-to-service-desk call never makes the run fail:
\* the run does not end failed on that answer.
C6_ConflictNeverFails ==
    \A i \in DirectoryCalls :
        ConflictAt(i) => ~(Done /\ outcome = "failed" /\ i = Len(events))

----------------------------------------------------------------------------
(* C7 *)

Ack == <<[status |-> 200, at |-> 0]>>

\* C7 as stated: once verification has passed, a 200 has been sent before any
\* external call, and nothing else is sent whether the run completes or fails.
C7_AckBeforeFirstCall ==
    verified = "ok" => responses = Ack

\* C7 amended: in the cloud-function handlers (index.js 1-221 and 223-477, part_000,
\* part_001) a 200 is sent once verification has passed, before any external call,
\* and nothing else is sent whether the run completes or fails; the express route
\* (index.js 479-615) answers a checkout-completed notification only after its
\* record creations, with 200 when both succeeded and 500 when one failed, and
\* does not answer it at all when its dates cannot be computed.
C7_AckBeforeFirstCallInCloudFunctions ==
    verified = "ok" =>
        /\ version \in CloudFunctions => responses = Ack
        /\ (version = "idx3" /\ req.type # CheckoutCompleted) => responses = Ack
        /\ (version = "idx3" /\ req.type = CheckoutCompleted) =>
               responses = IF ~Done \/ ~DatesComputable THEN <<>>
                           ELSE <<[status |-> IF outcome = "completed" THEN 200 ELSE 500,
                                   at |-> Len(events)]>>

\* C7 witness: a cloud-function run failed after calls were made; the sender saw 200
C7_Witness ==
    /\ version \in CloudFunctions
    /\ verified = "ok"
    /\ outcome = "failed"
    /\ events # <<>>
    /\ responses = Ack

----------------------------------------------------------------------------
(* C8 *)

\* C8: when signature verification fails the handler answers 400 and starts no
\* orchestration: no directory call and no record-creation call is made.
C8_BadSignatureRejected ==
    verified = "fail" =>
        /\ responses = <<[status |-> 400, at |-> 0]>>
        /\ ~started
        /\ events = <<>>
        /\ Done

\* C8 witness: a request with a body whose signature did not verify was handled
C8_Witness ==
    /\ verified = "fail"
    /\ req.rawBody /\ ~req.sigValid
    /\ req.type = CheckoutCompleted
    /\ Done

----------------------------------------------------------------------------
(* C9 *)

\* C9: orchestration is started if and only if the verified event is of the
\* checkout-completed type; a verified event of another type is answered 200 and
\* causes no directory call and no record-creation call.
C9_OnlyCheckoutCompletedStarts ==
    /\ started => verified = "ok"
    /\ verified = "ok" =>
         /\ started <=> req.type = CheckoutCompleted
         /\ req.type # CheckoutCompleted => (responses = Ack /\ events = <<>> /\ Done)

\* C9 witness: a verified event of another type was answered and ignored
C9_Witness ==
    /\ verified = "ok"
    /\ req.type # CheckoutCompleted
    /\ Done

----------------------------------------------------------------------------
(* C10 *)

\* both a service-desk key and a service-desk id are configured
OnboardingConfigured == ServiceDeskKeyConfigured /\ ServiceDeskIdConfigured

\* Stated for the revisions that have the onboarding step, for runs that reach it
HasOnboarding == version \in {"idx1", "p0", "p1"} /\ started /\ DatesComputable

\* C10 as stated: the Identity Resolver runs if and only if both a service-desk key
\* and a service-desk id are configured; when either is missing the run issues no
\* directory call at all and every record-creation call carries an email-only
\* reporter reference.
C10_NoDirectoryCallWhenSkipped ==
    HasOnboarding =>
        /\ (Indices("createCustomer") # {}) <=> OnboardingConfigured
        /\ ~OnboardingConfigured =>
             /\ DirectoryCalls = {}
             /\ \A i \in RecordCalls : events[i].arg.kind = "emailAddress"

\* C10 amended: the customer is created and added to the service desk if and only
\* if both a service-desk key and a service-desk id are configured; when either is
\* missing the run issues no create-customer, add-to-service-desk or invite call,
\* but processCheckoutSession still makes at most one directory lookup (none in
\* index.js 1-221), and the reporter reference of a record-creation call is
\* email-only unless that lookup returned an account id, which it then carries.
C10_OnlyOneLookupWhenSkipped ==
    HasOnboarding =>
        /\ (Indices("createCustomer") # {}) <=> OnboardingConfigured
        /\ ~OnboardingConfigured =>
             /\ \A i \in DirectoryCalls : events[i].op = "lookup"
             /\ Count("lookup") <= 1
             /\ version = "idx1" => Count("lookup") = 0
             /\ \A i \in RecordCalls :
                  \/ events[i].arg = EmailRef(req.session.email)
                  \/ events[i].arg = NoReporter /\ events[i].op = "parent"
                  \/ \E j \in Indices("lookup") :
                        /\ j < i
                        /\ events[j].res = "found"
                        /\ events[i].arg = AccountRef(events[j].acct)
             /\ \A i \in RecordCalls, j \in Indices("lookup") :
                  events[j].res # "found" => events[i].arg.kind # "accountId"

\* C10 witness: onboarding was skipped, the one lookup found an account, and a
\* record was created with it as reporter
C10_Witness ==
    /\ HasOnboarding
    /\ ~OnboardingConfigured
    /\ Count("lookup") = 1
    /\ \E i \in RecordCalls : events[i].arg.kind = "accountId" /\ events[i].res = "ok"

----------------------------------------------------------------------------
(* C11 *)

\* C11: the reporter reference passed to every record-creation call is {accountId}
\* whenever the Identity Resolver obtained an account id, from the create response
\* or from a lookup; it is {emailAddress} only when no id was obtained.  Stated for
\* index.js 1-221 and part_001.
C11_AccountReporterWhenIdObtained ==
    (version \in {"idx1", "p1"} /\ ResolverObtainedId) =>
        \A i \in RecordCalls : events[i].arg.kind = "accountId"

----------------------------------------------------------------------------
(* C12 *)

\* every directory call of the log precedes every record-creation call
DirectoryBeforeRecords == \A i \in DirectoryCalls, j \in RecordCalls : i < j

\* C12 as stated: identity resolution is computed once and is finished before the
\* first record-creation call: no create-customer, lookup or association call is
\* issued after a record-creation call has started, and once the Identity Resolver
\* has run the orchestrator performs no resolution of its own.
C12_ResolvedOnceBeforeRecords ==
    /\ DirectoryBeforeRecords
    /\ (version = "p1" /\ Count("createCustomer") = 1) => OrchestratorLookups = {}

\* C12 amended: no create-customer, lookup, association or invite call is issued
\* after a record-creation call has started; in part_001, once the Identity Resolver
\* has returned, processCheckoutSession makes one further lookup of its own exactly
\* when the resolver did not both create the customer and obtain an account id, and
\* that lookup follows every call of the resolver.
C12_ResolvedBeforeRecordsThenQuickSearch ==
    /\ DirectoryBeforeRecords
    /\ Cardinality(OrchestratorLookups) <= 1
    /\ ResolverReturned =>
         /\ (OrchestratorLookups # {}) <=> ~(CustomerCreated /\ ResolverObtainedId)
         /\ \A j \in OrchestratorLookups, i \in DirectoryCalls :
              events[i].site = "checkAndInviteCustomer" => i < j

\* C12 witness: the resolver ran, processCheckoutSession searched once more, and the
\* record was created after that search
C12_Witness ==
    /\ ResolverReturned
    /\ Done
    /\ \E j \in OrchestratorLookups : \E k \in Created("support") : j < k

----------------------------------------------------------------------------
(* C13 *)

\* the routing key the call at position i needs is configured and is the one sent
RoutingKeyPresent(i) ==
    /\ Truthy(events[i].project)
    /\ events[i].op \in {"support", "confirmation"} => ServiceDeskKeyConfigured
    /\ events[i].op \in {"parent", "child"} => WorkspaceKeyConfigured

\* the key the variant selected by issueKind needs is not configured
SelectedVariantKeyAbsent ==
    IF IssueKindIsSupport THEN ~ServiceDeskKeyConfigured ELSE ~WorkspaceKeyConfigured

\* C13: a record-creation call is attempted only when the routing key it needs is
\* present (service-desk key for the support and confirmation records, workspace
\* project key for the parent and child records), and when the key required by the
\* variant that issueKind selects is absent no record-creation call is made at all.
\* Stated for index.js 223-477 and part_000.
C13_NoRecordWithoutRoutingKey ==
    (version \in {"idx2", "p0"} /\ started) =>
        /\ \A i \in RecordCalls : RoutingKeyPresent(i)
        /\ SelectedVariantKeyAbsent => RecordCalls = {}

----------------------------------------------------------------------------
(* C14 *)

\* the call at position i failed, and not with the conflict signal of its step; a
\* failed lookup counts as "not found"
NonConflictFailureAt(i) ==
    \/ events[i].op = "createCustomer" /\ events[i].res \in {"error", "already belongs to"}
    \/ events[i].op \in {"addToDesk", "invite"} /\ events[i].res = "error"
    \/ events[i].op \in RecordOps /\ events[i].res \notin {"ok", "pending"}

\* the run ended on the call at position i: nothing was attempted after it
RunEndedAt(i) == i = Len(events) /\ Done /\ outcome = "failed"

\* only creations, directory calls and waits are issued, and every record created
\* keeps the key it was given
NoCompensation ==
    \A i \in 1..Len(events) :
        /\ events[i].op \in DirectoryOps \cup RecordOps \cup {"wait"}
        /\ (events[i].op \in RecordOps /\ events[i].res = "ok") => events[i].key = i

\* C14 as stated: when an external call fails with an error that is not an expected
\* conflict, no later step is attempted in that run (a failed parent creation
\* prevents the child and the confirmation, a failed child creation prevents the
\* confirmation), and no delete or compensating call is issued.  Stated for
\* index.js 223-477, index.js 479-615 and part_000.
C14_FailureStopsTheRun ==
    version \in {"idx2", "idx3", "p0"} =>
        /\ \A i \in 1..Len(events) : NonConflictFailureAt(i) => RunEndedAt(i)
        /\ NoCompensation

\* C14 amended: a failed record-creation call ends the run (a failed parent creation
\* prevents the child and the confirmation, a failed child creation prevents the
\* confirmation) and no delete or compensating call is issued; a failed
\* create-customer or invite call of part_000 is logged and the run goes on to the
\* next step, whatever the error.
C14_RecordFailureStopsTheRun ==
    version \in {"idx2", "idx3", "p0"} =>
        /\ \A i \in RecordCalls : NonConflictFailureAt(i) => RunEndedAt(i)
        /\ \A i \in Indices("parent") :
             events[i].res # "ok" => Indices("child") = {} /\ Indices("confirmation") = {}
        /\ \A i \in Indices("child") : events[i].res # "ok" => Indices("confirmation") = {}
        /\ \A i \in Indices("createCustomer") \cup Indices("invite") :
             events[i].res # "pending" =>
                 \/ i < Len(events)
                 \/ i = Len(events) /\ Done /\ outcome = "completed"
        /\ NoCompensation

\* C14 witness: part_000 went on after a failed create-customer call, created the
\* parent record, and stopped at the failed child creation
C14_Witness ==
    /\ version = "p0"
    /\ \E i \in Indices("createCustomer") : events[i].res = "error"
    /\ Created("parent") # {}
    /\ \E j \in Indices("child") : NonConflictFailureAt(j) /\ RunEndedAt(j)

----------------------------------------------------------------------------
(* C19 *)

\* the notification lacks session.metadata or session.customer_details entirely
MissingNestedObject == ~req.session.hasMetadata \/ ~req.session.hasCustomerDetails

\* a run of a revision that normalizes the session, on such a notification
RunOnMissingObject ==
    /\ version \in {"idx1", "idx3", "p0", "p1"}
    /\ started
    /\ MissingNestedObject

----------------------------------------------------------------------------
(* C18 *)

LeapYear(y) == (y % 4 = 0 /\ y % 100 # 0) \/ y % 400 = 0

DaysInMonth(y, m) ==
    IF m = 2 THEN (IF LeapYear(y) THEN 29 ELSE 28)
    ELSE IF m \in {4, 6, 9, 11} THEN 30 ELSE 31

\* the number of leap years before year y
LeapsBefore(y) == ((y - 1) \div 4) - ((y - 1) \div 100) + ((y - 1) \div 400)

\* the number of days of year y before its month m
RECURSIVE DaysBeforeMonth(_, _)
DaysBeforeMonth(y, m) ==
    IF m = 1 THEN 0 ELSE DaysBeforeMonth(y, m - 1) + DaysInMonth(y, m - 1)

\* the position of the date <<y, m, d>> in the calendar, counted in days
DayNumber(date) ==
    365 * date[1] + LeapsBefore(date[1]) + DaysBeforeMonth(date[1], date[2]) + date[3]

\* date2 lies n calendar days after date1 (before it, when n is negative)
DaysApart(date1, date2, n) == DayNumber(date2) - DayNumber(date1) = n

\* s has the shape YYYY-MM-DD
DateShaped(s) ==
    /\ Len(s) = 10
    /\ s[5] = "-" /\ s[8] = "-"
    /\ \A i \in {1, 2, 3, 4, 6, 7, 9, 10} : s[i] \in Digits

\* the <<year, month, day>> a string of that shape denotes
DateOf(s) ==
    <<ParseDigits(SubSeq(s, 1, 4), 1, 0), ParseDigits(SubSeq(s, 6, 7), 1, 0),
      ParseDigits(SubSeq(s, 9, 10), 1, 0)>>

\* s is a valid YYYY-MM-DD date
ValidDate(s) ==
    /\ DateShaped(s)
    /\ DateOf(s)[2] \in 1..12
    /\ DateOf(s)[3] \in 1..DaysInMonth(DateOf(s)[1], DateOf(s)[2])

\* the duration string holds no digit at all
NonNumeric(d) == Len(d) > 0 /\ \A i \in 1..Len(d) : d[i] \notin Digits

\* the dates of calc were computed, or computing them threw
DatesAttempted == calc.step \in {"dates", "thrown", "sent"}

\* C18: when the duration metadata is absent or is not numeric the run uses
\* durationDays = 5; in every case the end date is the start date plus durationDays
\* calendar days, both valid YYYY-MM-DD dates; computing them never fails.
C18_DurationDefaultsToFive ==
    DatesAttempted =>
        /\ calc.step # "thrown"
        /\ (calc.duration = NoDuration \/ NonNumeric(calc.duration)) =>
               calc.durationDays = Number(5)
        /\ ValidDate(calc.startDate) /\ ValidDate(calc.endDate)
        /\ DaysApart(DateOf(calc.startDate), DateOf(calc.endDate), calc.durationDays.n)

\* What holds of the dates: whenever parseInt reads a number, both dates are valid
\* and the end date is the start date plus that many calendar days; an absent
\* duration gives 5
DatesWhenParsed ==
    calc.step \in {"dates", "sent"} =>
        /\ calc.duration = NoDuration => calc.durationDays = Number(5)
        /\ ValidDate(calc.startDate) /\ ValidDate(calc.endDate)
        /\ DaysApart(DateOf(calc.startDate), DateOf(calc.endDate), calc.durationDays.n)

----------------------------------------------------------------------------
(* C20 *)

\* C20: the summary of the record the support variant creates is the prefix
\* "Support Request for " followed by the routing summary, for every summary value,
\* the defaulted one included.  Stated for index.js 1-221 and part_001.
C20_SummaryHasSupportPrefix ==
    calc.step = "sent" =>
        calc.sent = "Support Request for " \o OrElse(calc.summary, "New Support Request")

----------------------------------------------------------------------------
(* C15: the same notification delivered again *)

\* The deliveries of one notification that are followed
MaxDeliveries == 2

\* a store of handled event ids: the notification delivered again is acknowledged
\* and dropped
RedeliverDeduplicated ==
    /\ pc = "done"
    /\ Len(responses) < MaxDeliveries
    /\ responses' = Send(200)
    /\ UNCHANGED <<bg, calc, version, env, req, pc, verified, started, cfg, loc, events,
                   outcome>>

\* The sender delivers the identical notification again, after the run of the
\* delivery before has ended: a new invocation of the handler, with fresh locals.
\* The cloud-function handlers answer every delivery once, so Len(responses) counts
\* the deliveries.
Redeliver ==
    /\ pc = "done"
    /\ Len(responses) < MaxDeliveries
    /\ pc' = "recv"
    /\ verified' = "none"
    /\ started' = FALSE
    /\ cfg' = NoCfg
    /\ loc' = NoLoc
    /\ outcome' = "none"
    /\ UNCHANGED <<bg, calc, version, env, req, events, responses>>

\* the notification is a verified checkout-completed one whose metadata and customer
\* details are present, and every external call so far has succeeded
SuccessfulDelivery ==
    /\ req.rawBody /\ req.sigValid /\ req.type = CheckoutCompleted
    /\ req.session.hasMetadata /\ req.session.hasCustomerDetails
    /\ \A i \in 1..Len(events) : events[i].res \in {"ok", "found", "none", "pending"}

\* the step A, in a behaviour where every delivery is a successful one
Delivered(A) == A /\ SuccessfulDelivery'

InitRedelivery == Init /\ version \in {"idx1", "p1"}

NextRedelivery ==
    \/ Delivered(Receive) \/ Delivered(Redeliver)
    \/ Delivered(Handler_idx1) \/ Delivered(CustomerCreated_idx1)
    \/ Delivered(CustomerAdded_idx1) \/ Delivered(TicketCreated_idx1)
    \/ Delivered(Handler_p1) \/ Delivered(CustomerCreated_p1)
    \/ Delivered(AccountSearched_p1) \/ Delivered(RetryTimerFired_p1)
    \/ Delivered(CustomerAdded_p1) \/ Delivered(RequestCreated_p1)

SpecRedelivery == InitRedelivery /\ [][NextRedelivery]_vars

----------------------------------------------------------------------------
(* C16: two invocations for the same customer, interleaved *)

\* The invocation that is not running now
Running ==
    [ req |-> req, pc |-> pc, verified |-> verified, started |-> started, cfg |-> cfg,
      loc |-> loc, events |-> events, responses |-> responses, outcome |-> outcome ]

\* The event loop turns to the other invocation: one invocation is at an await
\* (or has ended) and a callback of the other one runs.  The two invocations share
\* no variable: each has its own request, locals and log.
Switch ==
    /\ pc # "idle"
    /\ bg' = Running
    /\ req' = bg.req
    /\ pc' = bg.pc
    /\ verified' = bg.verified
    /\ started' = bg.started
    /\ cfg' = bg.cfg
    /\ loc' = bg.loc
    /\ events' = bg.events
    /\ responses' = bg.responses
    /\ outcome' = bg.outcome
    /\ UNCHANGED <<calc, version, env>>

\* the answers in both logs to the calls of one kind
AnswersTo(op) ==
    [ log \in {"here", "there"} |->
        LET ev == IF log = "here" THEN events ELSE bg.events
        IN  { i \in 1..Len(ev) : ev[i].op = op /\ ev[i].res # "pending" } ]

ResOf(log, i) == IF log = "here" THEN events[i].res ELSE bg.events[i].res

\* the calls of one kind were answered as the directory answers two clients: at most
\* one of them succeeded, every other one got the conflict signal (status 409 or
\* the phrase of the step)
OneWins(op, phrase) ==
    /\ \A log \in {"here", "there"} : \A i \in AnswersTo(op)[log] :
           ResOf(log, i) \in {"ok", "409", phrase}
    /\ Cardinality({ <<log, i>> \in {"here", "there"} \X (1..4) :
                        i \in AnswersTo(op)[log] /\ ResOf(log, i) = "ok" }) <= 1

\* The notification of both runs: a verified checkout-completed one, with a
\* service-desk key and id in its metadata and the customer's email
CustomerCheckout ==
    [ rawBody |-> TRUE, sigValid |-> TRUE, type |-> CheckoutCompleted,
      session |-> [ hasMetadata |-> TRUE, hasCustomerDetails |-> TRUE, project |-> NULL,
                    jsmProjectKey |-> "sup", jsmServiceDeskId |-> "7", issue |-> NULL,
                    duration |-> NoDuration, email |-> "a@x.io" ] ]

\* both runs are for that notification; the directory answers as above and every
\* other call succeeds
SameCustomerRuns ==
    /\ pc # "idle" => req = CustomerCheckout
    /\ OneWins("createCustomer", "already exists")
    /\ OneWins("addToDesk", "already belongs to")
    /\ \A log \in {"here", "there"} :
         /\ \A i \in AnswersTo("lookup")[log] : ResOf(log, i) \in {"found", "none"}
         /\ \A i \in AnswersTo("support")[log] : ResOf(log, i) = "ok"

\* the step A, in a behaviour of two such runs
Concurrently(A) == A /\ SameCustomerRuns'

InitConcurrent ==
    /\ Init
    /\ version \in {"idx1", "p1"}
    /\ env = [JIRA_JSM_PROJECT_KEY |-> "HELP", JIRA_JSM_SERVICE_DESK_ID |-> "1"]

NextConcurrent ==
    \/ Concurrently(Receive) \/ Concurrently(Switch)
    \/ Concurrently(Handler_idx1) \/ Concurrently(CustomerCreated_idx1)
    \/ Concurrently(CustomerAdded_idx1) \/ Concurrently(TicketCreated_idx1)
    \/ Concurrently(Handler_p1) \/ Concurrently(CustomerCreated_p1)
    \/ Concurrently(AccountSearched_p1) \/ Concurrently(RetryTimerFired_p1)
    \/ Concurrently(CustomerAdded_p1) \/ Concurrently(RequestCreated_p1)

SpecConcurrent == InitConcurrent /\ [][NextConcurrent]_vars

\* both invocations have run to their end
BothEnded == Done /\ started /\ bg.pc = "done" /\ bg.started

\* C16: two runs for the same customer that interleave arbitrarily may both issue
\* the create-customer call; the run that is answered with the conflict signal, there
\* and at the association, still continues: when both runs have ended neither has
\* failed and, with a service-desk key configured, both have created their record.
\* Stated for index.js 1-221 and part_001.
C16_BothRunsComplete ==
    (BothEnded /\ DatesComputable) =>
        /\ outcome = "completed" /\ bg.outcome = "completed"
        /\ ServiceDeskKeyConfigured =>
             /\ Created("support") # {}
             /\ \E i \in 1..Len(bg.events) :
                  bg.events[i].op = "support" /\ bg.events[i].res = "ok"

----------------------------------------------------------------------------
(* C21 *)

\* the address component c is there and is not empty
Present(c) == c # NULL /\ c # ""

\* the component c put before the text joined so far
Before(c, rest) ==
    IF ~Present(c) THEN rest
    ELSE IF rest = "" THEN c
    ELSE c \o ", " \o rest

\* the components of calc.address; none when the address object is absent
Component(name) ==
    IF ~calc.address.present THEN NULL
    ELSE CASE name = "line1" -> calc.address.line1
           [] name = "city" -> calc.address.city
           [] name = "postal_code" -> calc.address.postal_code
           [] name = "country" -> calc.address.country

\* line1, city, postal code, country in that order, the absent and empty ones
\* dropped, the rest joined by ", "
JoinedInOrder ==
    Before(Component("line1"),
           Before(Component("city"),
                  Before(Component("postal_code"), Before(Component("country"), ""))))

NoComponent ==
    \A name \in {"line1", "city", "postal_code", "country"} : ~Present(Component(name))

\* the customer data of calc was built
AddressJoined == calc.step \in {"customer", "dates", "thrown", "sent"}

\* C21: the joined postal address is the components line1, city, postal code,
\* country, in that order, with every absent or empty component dropped and the rest
\* joined by ", "; when all four are absent or empty, or the address object itself
\* is absent, the result is "N/A".
C21_AddressJoinedInOrder ==
    AddressJoined =>
        /\ NoComponent => calc.companyAddress = "N/A"
        /\ ~NoComponent => calc.companyAddress = JoinedInOrder

\* C21 witness: an address whose city is empty and whose postal code is absent was
\* joined from its first line and its country
C21_Witness ==
    /\ AddressJoined
    /\ calc.address.present
    /\ calc.address.city = "" /\ calc.address.postal_code = NULL
    /\ calc.companyAddress = "12 Elm St, IE"

----------------------------------------------------------------------------
(* C22 *)

\* the create-customer call at position i failed, and not with a conflict: its
\* status is not 409 and its message does not contain "already exists"
CreateFailedAt(i) ==
    /\ events[i].op = "createCustomer"
    /\ events[i].res \in {"error", "already belongs to"}

\* the calls issued after the one at position i
After(i) == { j \in 1..Len(events) : j > i }

\* C22 as stated: when the create-customer call fails with an error that is not a
\* conflict the resolver propagates it as fatal: no directory lookup, no association
\* call and no record-creation call is made afterwards in that run.
C22_CreateFailureIsFatal ==
    \A i \in Indices("createCustomer") :
        CreateFailedAt(i) =>
            /\ \A j \in After(i) :
                 events[j].op \notin {"lookup", "addToDesk", "invite"} \cup RecordOps
            /\ Done => outcome = "failed"

\* C22 amended: in index.js 1-221 and part_001 a create-customer call that fails
\* with an error that is not a conflict is rethrown: it is the last call of the run,
\* which ends failed.  In part_000 the error is logged and the run goes on: the
\* invite call follows at once, then the lookup and the record creations, as after a
\* successful creation.
C22_CreateFailureIsFatalExceptInPart000 ==
    \A i \in Indices("createCustomer") :
        CreateFailedAt(i) =>
            IF version = "p0"
            THEN /\ i < Len(events)
                 /\ events[i + 1].op = "invite"
                 /\ (Done /\ outcome = "failed") => events[Len(events)].op \in RecordOps
            ELSE RunEndedAt(i)

\* C22 witness: in part_001 the create-customer call was answered with status 500
\* and the run ended there, failed
C22_Witness ==
    /\ version = "p1"
    /\ \E i \in Indices("createCustomer") : CreateFailedAt(i) /\ RunEndedAt(i)

----------------------------------------------------------------------------
(* C23 *)

\* the call that grants portal access (add-to-service-desk; the invite of part_000)
\* at position i failed, and not with a conflict: its status is not 409 and its
\* message does not contain "already belongs to"
AssociationFailedAt(i) ==
    /\ events[i].op \in {"addToDesk", "invite"}
    /\ events[i].res \in {"error", "already exists"}

\* C23: when the add-to-service-desk call fails with an error that is not a
\* conflict / already-a-member response the whole run aborts: no record-creation
\* call is made afterwards, so no record is created for a customer whose portal
\* access was not granted.
C23_AssociationFailureAborts ==
    \A i \in 1..Len(events) :
        AssociationFailedAt(i) =>
            /\ \A j \in After(i) : events[j].op \notin RecordOps
            /\ Done => outcome = "failed"

\* What holds in index.js 1-221: there the failed call is the last one of the run
AssociationFailureAborts_idx1 ==
    version = "idx1" => \A i \in 1..Len(events) : AssociationFailedAt(i) => RunEndedAt(i)

\* The same for part_001 alone
AssociationFailureAborts_p1 ==
    version = "p1" => \A i \in 1..Len(events) : AssociationFailedAt(i) => RunEndedAt(i)

----------------------------------------------------------------------------
(* C24 *)

\* every attempt of the resolver's retry budget was made and none returned a match
SearchExhausted ==
    /\ Cardinality(ResolverLookups) = Retries
    /\ \A i \in ResolverLookups : events[i].res \in {"none", "error"}

\* the resolver ended without an account id and without an error: it made no
\* association call, its flag is false, and the run does not end on one of its calls
EndedUnresolved ==
    /\ loc.accountId = NULL
    /\ ~loc.wasNewCustomer
    /\ Indices("addToDesk") = {}
    /\ \A i \in DirectoryCalls : ~RunEndedAt(i)

\* the association call is issued exactly when the resolver knows an account id
AssociatedIffIdKnown == (Indices("addToDesk") # {}) <=> ResolverObtainedId

----------------------------------------------------------------------------
(* C25 *)

\* C25: when the create-customer call succeeds and its response contains an account
\* id the resolver goes to Resolved directly: no directory lookup is issued in that
\* run, the next directory call is the association call made with that id, and the
\* flag the resolver returns is true.  Stated for part_001.
C25_CreatedWithIdSkipsSearch ==
    version = "p1" =>
        \A i \in Created("createCustomer") :
            Truthy(events[i].acct) =>
                /\ Indices("lookup") = {}
                /\ i < Len(events)
                /\ events[i + 1].op = "addToDesk"
                /\ events[i + 1].arg = AccountRef(events[i].acct)
                /\ loc.accountId = events[i].acct
                /\ ResolverReturned => loc.wasNewCustomer

\* C25 witness: the creation answered with an account id, the customer was added to
\* the service desk and the record was created, without any lookup
C25_Witness ==
    /\ version = "p1"
    /\ CustomerCreatedWithId
    /\ Created("addToDesk") # {}
    /\ Created("support") # {}
    /\ Indices("lookup") = {}

----------------------------------------------------------------------------
(* C26 *)

\* the lookup at position i returned at least one match
MatchAt(i) == events[i].op = "lookup" /\ events[i].res = "found"

\* the account id at the head of an answer of the directory with n matches
IsFirstOfMatches(id, n) ==
    \E r \in SearchResponses : Len(r.data) = n /\ n > 0 /\ id = r.data[1]

\* C26: in the search of the resolver the first lookup attempt that returns at least
\* one match ends the search: the resolver takes the account id of the first match,
\* issues no further lookup and no further wait, and uses that id for the
\* association call, which is the next call of the run.  Stated for part_001.
C26_FirstMatchEndsSearch ==
    version = "p1" =>
        \A i \in ResolverLookups :
            MatchAt(i) =>
                /\ IsFirstOfMatches(events[i].acct, events[i].key)
                /\ \A j \in After(i) : j \notin ResolverLookups /\ events[j].op # "wait"
                /\ \A j \in ResolverLookups : j < i => ~MatchAt(j)
                /\ i < Len(events)
                /\ events[i + 1].op = "addToDesk"
                /\ events[i + 1].arg = AccountRef(events[i].acct)
                /\ loc.accountId = events[i].acct

\* C26 witness: the second attempt returned two matches; the customer named first
\* was added to the service desk
C26_Witness ==
    /\ version = "p1"
    /\ Cardinality(ResolverLookups) = 2
    /\ \E i \in ResolverLookups :
         /\ MatchAt(i) /\ events[i].key = 2
         /\ \E j \in Created("addToDesk") : j = i + 1 /\ events[j].arg = AccountRef("u2")

----------------------------------------------------------------------------
(* C27 *)

\* the calls of the run that were issued and have neither returned nor failed
InFlight == { i \in 1..Len(events) : events[i].res = "pending" }

\* the run is waiting for an answer
AtAwait == pc \notin {"idle", "recv", "done"}

\* C27: within one run the external calls form a strictly sequential chain: at every
\* moment at most one external call of the run is in flight, and each call is issued
\* only after the previous call of the run has returned or failed; the run waits
\* exactly while a call is in flight, and ends with none in flight.
C27_OneCallInFlight ==
    /\ Cardinality(InFlight) <= 1
    /\ \A i \in InFlight : i = Len(events)
    /\ AtAwait <=> InFlight # {}

\* C27 witness: the fourth call of a part_000 run is in flight after three that have
\* returned, a failed one among them
C27_Witness ==
    /\ version = "p0"
    /\ Len(events) >= 4
    /\ InFlight = {Len(events)}
    /\ \E i \in 1..Len(events) : events[i].res = "error"

----------------------------------------------------------------------------
(* C28: termination *)

\* A step of the run: the handler, or the continuation after an awaited answer.
\* At most one of them is enabled at a time, and the event loop runs it: the
\* handler is invoked for a request that has arrived, every external call returns
\* or fails (axios resolves or rejects), and the 1.5 s timer fires.
RunStep ==
    \/ Handler_idx1 \/ CustomerCreated_idx1 \/ CustomerAdded_idx1 \/ TicketCreated_idx1
    \/ Handler_idx2
    \/ Handler_idx3 \/ EpicCreated_idx3 \/ TaskCreated_idx3
    \/ Handler_p0 \/ CustomerCreated_p0 \/ CustomerInvited_p0 \/ AccountSearched_p0
    \/ TicketCreated_p0 \/ EpicCreated_p0 \/ TaskCreated_p0 \/ ConfirmationCreated_p0
    \/ Handler_p1 \/ CustomerCreated_p1 \/ AccountSearched_p1 \/ RetryTimerFired_p1
    \/ CustomerAdded_p1 \/ RequestCreated_p1
    \/ Handler_p2

SpecTermination == Init /\ [][Next]_vars /\ WF_vars(RunStep)

\* the run has ended, completed or failed
Terminated == Done /\ outcome \in {"completed", "failed"}

\* the loop counter of getJiraAccountIdByEmail stays within its budget
WithinBudget == loc.attempt <= loc.retries /\ loc.retries <= Retries

\* C28: every started run eventually terminates, either completed or failed, for
\* every combination of answers of the external calls, given that each external
\* call returns or fails: the retry loop stays within its budget and cannot repeat
\* forever.
C28_EveryRunTerminates == []WithinBudget /\ (started ~> Terminated)

\* C28 witness: a run that used the whole retry budget, searched once more and then
\* failed at the record creation has terminated
C28_Witness ==
    /\ Terminated
    /\ outcome = "failed"
    /\ Cardinality(ResolverLookups) = Retries
    /\ OrchestratorLookups # {}
    /\ \E k \in Indices("support") : RunEndedAt(k)

----------------------------------------------------------------------------
(* C29 *)

\* the calls the orchestrator issues once at most: every call but the lookup (and
\* the wait between two lookups)
SingleShotOps == (DirectoryOps \ {"lookup"}) \cup RecordOps

\* C29: the orchestrator never retries a step: within one run the create-customer
\* call, the association call (the invite of part_000) and each record-creation
\* call (support record, parent, child, confirmation) are each issued at most once,
\* whether they succeed or fail; the directory lookup is the only call that can be
\* issued more than once.
C29_NoStepIsRetried ==
    /\ \A op \in SingleShotOps : Count(op) <= 1
    /\ \A i \in 1..Len(events) : events[i].op \in SingleShotOps \cup {"lookup", "wait"}

\* C29 witness: a run whose creation of the request failed was over after two
\* lookups and one call of every other kind it made
C29_Witness ==
    /\ Done
    /\ Count("lookup") >= 2
    /\ Count("createCustomer") = 1
    /\ Count("addToDesk") = 1
    /\ \E k \in Indices("support") : events[k].res = "error" /\ RunEndedAt(k)

----------------------------------------------------------------------------
(* C30 *)

\* the labels of the call at position i, as a set
LabelsOf(i) == { events[i].labels[n] : n \in 1..Len(events[i].labels) }

ClassificationLabels == {"NewCustomer", "ExistingCustomer"}

\* the classification label the record must carry
LabelFor(isNewIdentity) == IF isNewIdentity THEN "NewCustomer" ELSE "ExistingCustomer"

\* C30: the support record's labels always contain the constant source label and
\* exactly one of the two classification labels: the new-customer label when the
\* run's new-identity flag is true, the existing-customer label when it is false,
\* which includes the runs whose onboarding was skipped and those whose resolution
\* ended without an account id.  Stated for part_001.
C30_LabelsFollowNewIdentity ==
    version = "p1" =>
        \A k \in Indices("support") :
            /\ "Stripe" \in LabelsOf(k)
            /\ LabelsOf(k) \cap ClassificationLabels = {LabelFor(loc.wasNewCustomer)}
            /\ Len(events[k].labels) = 2
            /\ (~OnboardingConfigured \/ SearchExhausted) =>
                   "ExistingCustomer" \in LabelsOf(k)
            /\ (CustomerCreated /\ ResolverObtainedId) <=> "NewCustomer" \in LabelsOf(k)

\* C30 witness: a record labelled for a new customer was created, and the account id
\* of that customer came from a lookup
C30_Witness ==
    /\ version = "p1"
    /\ \E k \in Created("support") : LabelsOf(k) = {"Stripe", "NewCustomer"}
    /\ \E i \in ResolverLookups : MatchAt(i)

----------------------------------------------------------------------------
(* C31 *)

\* the lookup at position i failed with an error, whatever it was
LookupFailedAt(i) == events[i].op = "lookup" /\ events[i].res = "error"

\* the number of the attempt at position i within its search
AttemptOf(i) == Cardinality({ j \in IndicesAt("lookup", events[i].site) : j <= i })

\* the attempts the search of the lookup at position i may make: three in the
\* resolver of part_001, one everywhere else
BudgetOf(i) ==
    IF version = "p1" /\ events[i].site = "checkAndInviteCustomer" THEN 3 ELSE 1

\* C31: a directory lookup attempt that fails with any error (conflict or not, with
\* or without an HTTP response) is absorbed inside the retry loop: it counts as one
\* used attempt with no match, the next attempt follows after the wait if the budget
\* is not exhausted, and the error is never propagated to the caller: the run does
\* not end failed on it.
C31_LookupErrorIsAbsorbed ==
    \A i \in Indices("lookup") :
        LookupFailedAt(i) =>
            /\ events[i].acct = NULL /\ events[i].key = 0
            /\ ~RunEndedAt(i)
            /\ i = Len(events) => (Done /\ outcome = "completed")
            /\ AttemptOf(i) <= BudgetOf(i)
            /\ IF AttemptOf(i) < BudgetOf(i)
               THEN /\ i < Len(events)
                    /\ events[i + 1].op = "wait"
                    /\ i + 1 < Len(events) =>
                           /\ events[i + 2].op = "lookup"
                           /\ events[i + 2].site = events[i].site
               ELSE i < Len(events) =>
                        /\ events[i + 1].op # "wait"
                        /\ ~(events[i + 1].op = "lookup" /\ events[i + 1].site = events[i].site)

\* C31 witness: the first attempt of the resolver failed, the second one, made after
\* the wait, found the account, and the run created its record
C31_Witness ==
    /\ version = "p1"
    /\ \E i \in ResolverLookups :
         /\ LookupFailedAt(i) /\ AttemptOf(i) = 1
         /\ i + 2 \in ResolverLookups /\ MatchAt(i + 2)
    /\ Created("support") # {}

----------------------------------------------------------------------------
(* C32 *)

\* the status the request must be answered with
ExpectedStatus == IF req.rawBody /\ req.sigValid THEN 200 ELSE 400

\* one response, of the expected status, and no verification without a raw body
AnsweredOnce ==
    /\ Len(responses) = 1
    /\ responses[1].status = ExpectedStatus
    /\ ~req.rawBody => verified = "none"

\* C32: for every inbound request the handler sends exactly one HTTP response, on
\* every path: 400 when the raw body is missing (without attempting verification),
\* 400 when verification fails, 200 otherwise; no path sends a second response
\* after orchestration ends and no path leaves the request unanswered.
C32_ExactlyOneResponse ==
    /\ Len(responses) <= 1
    /\ Done => AnsweredOnce

\* What holds in the cloud-function handlers (index.js 1-221 and 223-477, part_000,
\* part_001): the one response is sent before the handler returns, ahead of every
\* external call, and nothing is sent after the run
ExactlyOneResponse_CloudFunctions ==
    version \in CloudFunctions =>
        /\ Len(responses) <= 1
        /\ pc \notin {"idle", "recv"} => (AnsweredOnce /\ responses[1].at = 0)

====
